---- MODULE Spec2Model ----
(***************************************************************************)
(* State-machine model of the appo bridge (src/src/bridge.ts): the         *)
(* correlation table (pendingRequests + timeout timers + the promises      *)
(* returned by sendMessage), the event hub (eventListeners), the logger    *)
(* slot, and the ingest routine handleNativeMessage.                       *)
(*                                                                         *)
(* JavaScript is single-threaded: every exported function and every timer  *)
(* callback runs to completion, so each is one atomic action.              *)
(***************************************************************************)
EXTENDS Integers, Sequences, FiniteSets, TLC

(***************************************************************************)
(* Bounds of the model.                                                    *)
(***************************************************************************)
MaxCalls == 2      \* sendMessage calls (promises created) in one behaviour
MaxCounter == 2    \* cap on messageIdCounter (ids generated)
MaxNow == 0        \* Date.now() returns a value in 0..MaxNow
MaxSubs == 1       \* addEventListener calls in one behaviour
\* Bounds of SpecIds, the specification of the id generator and the wire.
IdCalls == 3
IdCounter == 3
IdNow == 1

(***************************************************************************)
(* Small input domains.                                                    *)
(***************************************************************************)
Undefined == "undefined"          \* the JS value undefined / an absent field
Circular == "circular"            \* a payload JSON.stringify cannot encode
\* (type, payload) pairs passed to sendMessage and postMessage.  A Circular
\* payload makes line 84 / line 100 throw (JSON.stringify fails); a host
\* postMessage that throws takes the same path.
Requests == {<<"storage.get", "p1">>, <<"push.getToken", Undefined>>,
             <<"storage.get", Circular>>}
Channels == {"network.change"}
Callbacks == {"cbA", "cbThrow"}   \* cbThrow is a listener that throws
Loggers == {"none", "ok", "throws"}
NoId == "none"
Undef == [t |-> "undefined"]      \* undefined, as a value received or logged

VARIABLES
  native,            \* window.ReactNativeWebView is present
  logger,            \* the logger slot: "none" (null), "ok", or "throws"
  messageIdCounter,  \* let messageIdCounter
  pendingRequests,   \* Map id -> response callback (the promise it settles)
  timers,            \* armed setTimeout handles, one per promise
  promises,          \* promises returned by sendMessage, in call order
  eventListeners,    \* Map channel -> Set of callbacks, in insertion order
  unsubs,            \* unsubscribe closures returned so far, in creation order,
                     \* each with whether it has been called
  sent,              \* strings handed to window.ReactNativeWebView.postMessage
  lastOp,            \* name of the operation that ran last
  lastLog,           \* logger calls made by the last operation
  invoked,           \* listener invocations made by the last operation
  threw,             \* the last operation threw to its caller
  window,            \* window.appo, and what initAppo/getAppo did so far
  hung,              \* a handler entered a loop that never ends: the single
                     \* JS thread never returns to the event loop
  classified         \* the value last given to the type guards, with their answers

vars == <<native, logger, messageIdCounter, pendingRequests, timers, promises,
          eventListeners, unsubs, sent, lastOp, lastLog, invoked, threw, window, hung, classified>>

(***************************************************************************)
(* Promise outcomes and AppoError values.                                  *)
(***************************************************************************)
Pending == [state |-> "pending"]
Resolved(d) == [state |-> "resolved", data |-> d]
Rejected(c, m, d) == [state |-> "rejected", code |-> c, message |-> m, detail |-> d]

\* An exception that is not an AppoError (thrown by the logger, by
\* JSON.stringify or by the host's postMessage).
Thrown(what) == Rejected("not-an-AppoError", what, Undefined)

\* resolve()/reject() of a promise: only the first call takes effect.
SettleAlways(ps, p, o) == [ps EXCEPT ![p].outcome = o]
Settle(ps, p, o) ==
  IF ps[p].outcome = Pending THEN [ps EXCEPT ![p].outcome = o] ELSE ps

(***************************************************************************)
(* log(level, message, data): calls the logger if one is set.  The slot is *)
(* read at each call; `by` records which observer was called.              *)
(***************************************************************************)
LogCallsStale(level, message, data) ==
  <<[by |-> "ok", level |-> level, message |-> message, data |-> data]>>
LogCallsLeaky(level, message, data) ==
  IF logger = "none" THEN <<>>
  ELSE <<[by |-> logger, level |-> level, message |-> message,
          data |-> [data |-> data, sent |-> sent]]>>
LogCalls(level, message, data) ==
  IF logger = "none" THEN <<>>
  ELSE <<[by |-> logger, level |-> level, message |-> message, data |-> data]>>

LogThrows == logger = "throws"

(***************************************************************************)
(* generateMessageId: `msg_${Date.now()}_${++messageIdCounter}`, where n   *)
(* is the counter after the increment.                                     *)
(***************************************************************************)
generateMessageIdNoCounter(t, n) == "msg_" \o ToString(t)
generateMessageId(t, n) == "msg_" \o ToString(t) \o "_" \o ToString(n)

isNativeEnvironmentAlways == TRUE
isNativeEnvironment == native

(***************************************************************************)
(* JSON.stringify of the envelope { id, type, payload }: a field whose     *)
(* value is undefined is omitted.                                          *)
(***************************************************************************)
Stringify(id, type, payload) ==
  IF payload = Undefined THEN [id |-> id, type |-> type]
  ELSE [id |-> id, type |-> type, payload |-> payload]

(***************************************************************************)
(* Map helpers (JS Map: set overwrites, delete of a missing key is a       *)
(* no-op).                                                                 *)
(***************************************************************************)
EmptyMap == [k \in {} |-> 0]
MapSet(m, k, v) == [x \in DOMAIN m \cup {k} |-> IF x = k THEN v ELSE m[x]]
MapDelete(m, k) == [x \in DOMAIN m \ {k} |-> m[x]]

\* window.appo is undefined (0) until initAppo sets it to the instance it
\* created; instances are numbered in creation order.  bridgeInits counts the
\* calls of initializeBridge, returned is the instance the last initAppo or
\* getAppo call returned (0: none yet).
NoWindowAppo == [appo |-> 0, created |-> 0, bridgeInits |-> 0, returned |-> 0]

NotClassified == [value |-> Undef, response |-> FALSE, event |-> FALSE, called |-> FALSE]

\* JS runs one handler at a time, to completion: a handler starts only when
\* no earlier one is still running.
Idle == ~hung

TypeOK ==
  /\ native \in BOOLEAN
  /\ logger \in Loggers
  /\ messageIdCounter \in Nat
  /\ timers \subseteq 1..Len(promises)
  /\ threw \in BOOLEAN
  /\ hung \in BOOLEAN

Init ==
  /\ native \in BOOLEAN
  /\ logger = "none"
  /\ messageIdCounter = 0
  /\ pendingRequests = EmptyMap
  /\ timers = {}
  /\ promises = <<>>
  /\ eventListeners = EmptyMap
  /\ unsubs = <<>>
  /\ sent = <<>>
  /\ lastOp = "init"
  /\ lastLog = <<>>
  /\ invoked = <<>>
  /\ threw = FALSE
  /\ window = NoWindowAppo
  /\ hung = FALSE
  /\ classified = NotClassified

(***************************************************************************)
(* sendMessage(type, payload, timeout), bridge.ts:51-86.  t is the value   *)
(* Date.now() returns inside generateMessageId.  The timeout's length is   *)
(* not modelled: an armed timer may fire at any later step.  An exception  *)
(* inside the Promise executor rejects the promise with the thrown value.  *)
(***************************************************************************)
sendMessage(type, payload, t) ==
  /\ lastOp' = "sendMessage"
  /\ Idle
  /\ UNCHANGED <<window, hung, classified>>
  /\ invoked' = <<>>
  /\ threw' = FALSE
  /\ UNCHANGED <<native, logger, eventListeners, unsubs>>
  /\ IF ~isNativeEnvironment
     THEN /\ promises' = Append(promises,
                [type |-> type, id |-> NoId,
                 outcome |-> Rejected("NOT_NATIVE", "Not running in native environment", Undefined)])
          /\ lastLog' = <<>>
          /\ UNCHANGED <<messageIdCounter, pendingRequests, timers, sent>>
     ELSE /\ LET p == Len(promises) + 1
                 id == generateMessageId(t, messageIdCounter + 1)
                 new(o) == Append(promises, [type |-> type, id |-> id, outcome |-> o])
             IN /\ messageIdCounter' = messageIdCounter + 1
                /\ lastLog' = LogCalls("debug", "Sending message", [type |-> type, id |-> id])
                /\ IF LogThrows
                   THEN /\ promises' = new(Thrown("logger"))
                        /\ UNCHANGED <<pendingRequests, timers, sent>>
                   ELSE /\ timers' = timers \cup {p}
                        /\ pendingRequests' = MapSet(pendingRequests, id, p)
                        /\ IF payload = Circular
                           THEN /\ promises' = new(Thrown("transmit"))
                                /\ UNCHANGED sent
                           ELSE /\ promises' = new(Pending)
                                /\ sent' = Append(sent, Stringify(id, type, payload))

(***************************************************************************)
(* postMessage(type, payload), bridge.ts:93-101: fire-and-forget.          *)
(***************************************************************************)
postMessage(type, payload, t) ==
  /\ lastOp' = "postMessage"
  /\ Idle
  /\ UNCHANGED <<window, hung, classified>>
  /\ invoked' = <<>>
  /\ lastLog' = <<>>
  /\ UNCHANGED <<native, logger, pendingRequests, timers, promises,
                 eventListeners, unsubs>>
  /\ IF ~isNativeEnvironment
     THEN /\ threw' = FALSE
          /\ UNCHANGED <<messageIdCounter, sent>>
     ELSE /\ messageIdCounter' = messageIdCounter + 1
          /\ LET id == generateMessageId(t, messageIdCounter + 1)
             IN IF payload = Circular
                THEN /\ threw' = TRUE
                     /\ UNCHANGED sent
                ELSE /\ threw' = FALSE
                     /\ sent' = Append(sent, Stringify(id, type, payload))

(***************************************************************************)
(* The setTimeout callback armed by sendMessage for promise p,             *)
(* bridge.ts:67-71.                                                        *)
(***************************************************************************)
TimerFire(p) ==
  /\ p \in timers
  /\ LET type == promises[p].type
         id == promises[p].id
     IN /\ timers' = timers \ {p}
        /\ pendingRequests' = MapDelete(pendingRequests, id)
        /\ lastLog' = LogCalls("warn", "Request timed out", [type |-> type, id |-> id])
        /\ lastOp' = "timer"
        /\ Idle
        /\ UNCHANGED <<window, hung, classified>>
        /\ IF LogThrows
           THEN /\ threw' = TRUE
                /\ UNCHANGED promises
           ELSE /\ threw' = FALSE
                /\ promises' = Settle(promises, p, Rejected("TIMEOUT", "Request timed out", type))
  /\ invoked' = <<>>
  /\ UNCHANGED <<native, logger, messageIdCounter, eventListeners, unsubs, sent>>

(***************************************************************************)
(* Values arriving from the host.  A JS value is modelled by its typeof    *)
(* tag and content; an object is a function from its field names to        *)
(* values.                                                                 *)
(***************************************************************************)
Str(x) == [t |-> "string", v |-> x]
Bool(b) == [t |-> "boolean", v |-> b]
Num(n) == [t |-> "number", v |-> n]
Null == [t |-> "null"]
Obj(f) == [t |-> "object", f |-> f]
Absent == [t |-> "absent"]          \* marks a field the object does not have

Opt(name, v) == IF v = Absent THEN EmptyMap ELSE (name :> v)

\* obj[name], which is undefined when the field is missing
Get(obj, name) == IF name \in DOMAIN obj.f THEN obj.f[name] ELSE Undef

ResponseObj(id, success, data, error, ev) ==
  Obj(("id" :> Str(id)) @@ ("success" :> Bool(success)) @@ Opt("data", data)
      @@ Opt("error", error) @@ Opt("event", ev))

EventObj(ev, data) == Obj(("event" :> Str(ev)) @@ Opt("data", data))

(***************************************************************************)
(* isBridgeResponse / isBridgeEvent, types.ts:261-282.  typeof null is     *)
(* "object" in JS, hence the separate null test.                           *)
(***************************************************************************)
IsObject(d) == d.t = "object"

isBridgeResponse(d) ==
  /\ IsObject(d)
  /\ "id" \in DOMAIN d.f
  /\ d.f["id"].t = "string"
  /\ "success" \in DOMAIN d.f
  /\ d.f["success"].t = "boolean"

isBridgeEventLoose(d) ==
  /\ IsObject(d)
  /\ "event" \in DOMAIN d.f
isBridgeEvent(d) ==
  /\ IsObject(d)
  /\ "event" \in DOMAIN d.f
  /\ d.f["event"].t = "string"

(***************************************************************************)
(* event.data as delivered to handleNativeMessage: either a string (JSON   *)
(* text, which may be invalid) or an already structured value.             *)
(***************************************************************************)
Garbage == [t |-> "not valid json{{{"]
JsonText(v) == [text |-> TRUE, json |-> v]
Structured(v) == [text |-> FALSE, value |-> v]
ParseError == [t |-> "SyntaxError"]

\* line 136: typeof event.data === 'string' ? JSON.parse(event.data) : event.data
Decode(m) ==
  IF m.text
  THEN (IF m.json = Garbage THEN ParseError ELSE m.json)
  ELSE m.value

UnknownId == "msg_9_9"

\* ids the host may answer: every id generated so far, and one never issued
AnswerableIds ==
  {promises[p].id : p \in DOMAIN promises} \cup {sent[i].id : i \in DOMAIN sent}
    \cup {UnknownId}

DataValues == {Absent, Str("d1")}
ErrorValues == {Absent, Str(""), Str("denied")}

\* Every shape of response for the ids that are pending; two shapes, with and
\* without an extra `event` field, for the others.
ResponseValues ==
  {ResponseObj(id, TRUE, d, Absent, Absent) : id \in DOMAIN pendingRequests, d \in DataValues}
  \cup
  {ResponseObj(id, FALSE, Absent, e, Absent) : id \in DOMAIN pendingRequests, e \in ErrorValues}
  \cup
  {ResponseObj(id, TRUE, Str("d1"), Absent, ev) :
      id \in AnswerableIds \ {NoId}, ev \in {Absent, Str("network.change")}}

EventValues == {EventObj(ev, Str("d1")) : ev \in Channels}

OtherValues ==
  { Null, Obj("random" :> Str("data")),
    Obj(("id" :> Num(1)) @@ ("success" :> Bool(TRUE))) }

IncomingMessages ==
  {JsonText(Garbage)}
  \cup {JsonText(v) : v \in ResponseValues \cup EventValues \cup OtherValues}
  \cup {Structured(v) : v \in EventValues}

(***************************************************************************)
(* The listener map, bridge.ts:109-124.  A JS Set keeps insertion order    *)
(* and ignores an element it already holds.  Registering creates the       *)
(* channel's set when the key is missing (110-113); the unsubscribe        *)
(* closure deletes the callback from the channel's current set and         *)
(* deletes the key when the set has become empty (116-122).                *)
(***************************************************************************)
SetAdd(ls, cb) == IF \E i \in 1..Len(ls) : ls[i] = cb THEN ls ELSE Append(ls, cb)
SetDelete(ls, cb) == SelectSeq(ls, LAMBDA x : x # cb)

AddListener(map, event, callback) ==
  LET ls == IF event \in DOMAIN map THEN map[event] ELSE <<>>
  IN MapSet(map, event, SetAdd(ls, callback))

RemoveListenerKeepsKey(map, event, callback) ==
  IF event \in DOMAIN map
  THEN MapSet(map, event, SetDelete(map[event], callback))
  ELSE map
RemoveListener(map, event, callback) ==
  IF event \in DOMAIN map
  THEN LET ls == SetDelete(map[event], callback)
       IN IF Len(ls) = 0 THEN MapDelete(map, event) ELSE MapSet(map, event, ls)
  ELSE map

(***************************************************************************)
(* What a listener does when it is invoked, besides receiving the data.    *)
(* cbThrow throws.  cbSub registers cbB on the channel it is delivered on  *)
(* and drops the closure it gets back; cbUnsub calls the unsubscribe       *)
(* closure of the first registration of cbB on that channel, if the        *)
(* program holds one.  cbRearm unsubscribes itself and registers itself    *)
(* again (a listener that re-arms on every event).  Every other listener   *)
(* only receives.                                                          *)
(***************************************************************************)
CallbackThrows(cb) == cb = "cbThrow"

Effects(cb) ==
  CASE cb = "cbSub" -> <<[op |-> "add", callback |-> "cbB"]>>
    [] cb = "cbUnsub" -> <<[op |-> "remove", callback |-> "cbB"]>>
    [] cb = "cbRearm" -> <<[op |-> "remove", callback |-> "cbRearm"],
                           [op |-> "add", callback |-> "cbRearm"]>>
    [] OTHER -> <<>>

\* the unsubscribe closures held for (event, callback), oldest first
ClosuresFor(us, event, callback) ==
  {u \in DOMAIN us : us[u].event = event /\ us[u].callback = callback}

(***************************************************************************)
(* One listener's calls into the bridge while the Set `listeners` of       *)
(* channel ev is being iterated.  st.todo are the elements of that Set not *)
(* yet visited, st.map is eventListeners, st.unsubs the closures, and      *)
(* st.attached tells whether the iterated Set is still the one stored      *)
(* under ev: once its last element is deleted the key is removed           *)
(* (bridge.ts:119-121) and a later registration goes to a new Set.         *)
(***************************************************************************)
ApplyOp(o, ev, st) ==
  IF o.op = "add"
  THEN LET had == ev \in DOMAIN st.map /\ (\E i \in DOMAIN st.map[ev] : st.map[ev][i] = o.callback)
       IN [st EXCEPT !.map = AddListener(st.map, ev, o.callback),
                     !.todo = IF st.attached /\ ~had THEN Append(st.todo, o.callback)
                              ELSE st.todo]
  ELSE LET held == ClosuresFor(st.unsubs, ev, o.callback)
       IN IF held = {} THEN st
          ELSE LET u == CHOOSE x \in held : \A y \in held : x <= y
                   map2 == RemoveListener(st.map, ev, o.callback)
               IN [map |-> map2,
                   todo |-> IF st.attached THEN SetDelete(st.todo, o.callback) ELSE st.todo,
                   unsubs |-> [st.unsubs EXCEPT ![u].called = TRUE],
                   attached |-> st.attached /\ ev \in DOMAIN map2]

RECURSIVE ApplyOps(_, _, _)
ApplyOps(ops, ev, st) ==
  IF ops = <<>> THEN st ELSE ApplyOps(Tail(ops), ev, ApplyOp(Head(ops), ev, st))

(***************************************************************************)
(* listeners.forEach(callback => callback(data)), bridge.ts:155.           *)
(* Set.prototype.forEach visits the elements in insertion order, visits    *)
(* an element added during the iteration, and does not visit one deleted   *)
(* before its turn.  An exception thrown by a callback ends the loop and   *)
(* propagates.                                                             *)
(***************************************************************************)
RECURSIVE Visit(_, _, _, _, _)
Visit(ev, d, st, calls, seen) ==
  IF st.todo = <<>>
  THEN [calls |-> calls, threw |-> FALSE, hung |-> FALSE,
        map |-> st.map, unsubs |-> st.unsubs]
  ELSE IF st \in seen
  THEN \* the iteration is back in a state it was in before: it never ends
       [calls |-> calls, threw |-> FALSE, hung |-> TRUE,
        map |-> st.map, unsubs |-> st.unsubs]
  ELSE LET cb == Head(st.todo)
           called == Append(calls, [cb |-> cb, data |-> d])
       IN IF CallbackThrows(cb)
          THEN [calls |-> called, threw |-> TRUE, hung |-> FALSE,
                map |-> st.map, unsubs |-> st.unsubs]
          ELSE Visit(ev, d,
                     ApplyOps(Effects(cb), ev,
                              [st EXCEPT !.todo = Tail(st.todo), !.attached = TRUE]),
                     called, seen \cup {st})

ForEach(ev, d) ==
  Visit(ev, d,
        [todo |-> IF ev \in DOMAIN eventListeners THEN eventListeners[ev] ELSE <<>>,
         map |-> eventListeners, unsubs |-> unsubs, attached |-> TRUE],
        <<>>, {})

(***************************************************************************)
(* The callback sendMessage stores in pendingRequests for promise p,       *)
(* bridge.ts:73-82, applied to response object r.                          *)
(***************************************************************************)
ResponseOutcome(type, r) ==
  IF Get(r, "success").v
  THEN Resolved(Get(r, "data"))
  ELSE LET e == Get(r, "error")
           msg == IF e.t = "string" /\ e.v # "" THEN e.v ELSE "Unknown native error"
       IN Rejected("NATIVE_ERROR", msg, type)

\* The stored closure run on response r: clearTimeout, delete, settle.
ResponseCallbackNoClear(p, r) ==
  [timers |-> timers,
   pendingRequests |-> MapDelete(pendingRequests, promises[p].id),
   promises |-> Settle(promises, p, ResponseOutcome(promises[p].type, r))]
ResponseCallback(p, r) ==
  [timers |-> timers \ {p},
   pendingRequests |-> MapDelete(pendingRequests, promises[p].id),
   promises |-> Settle(promises, p, ResponseOutcome(promises[p].type, r))]

\* pendingRequests.get(id), bridge.ts:145
PendingLookupAny(id) == pendingRequests[CHOOSE k \in DOMAIN pendingRequests : TRUE]
PendingLookup(id) == pendingRequests[id]

(***************************************************************************)
(* handleNativeMessage(event), bridge.ts:132-161.                          *)
(***************************************************************************)
handleNativeMessage(m) ==
  LET data == Decode(m) IN
  /\ Idle
  /\ lastOp' = "handleNativeMessage"
  /\ UNCHANGED <<window, classified>>
  /\ UNCHANGED <<native, logger, messageIdCounter, sent>>
  /\ IF data = ParseError
     THEN /\ lastLog' = LogCalls("warn", "Failed to parse message", Undef)
          /\ threw' = LogThrows
          /\ invoked' = <<>>
          /\ UNCHANGED <<pendingRequests, timers, promises, eventListeners, unsubs, hung, classified>>
     ELSE IF isBridgeResponse(data) /\ Get(data, "id").v \in DOMAIN pendingRequests
     THEN LET id == Get(data, "id").v
              after == ResponseCallback(PendingLookup(id), data)
          IN /\ lastLog' = LogCalls("debug", "Received response", [id |-> id])
             /\ invoked' = <<>>
             /\ threw' = LogThrows
             /\ UNCHANGED <<eventListeners, unsubs, hung, classified>>
             /\ IF LogThrows
                THEN UNCHANGED <<pendingRequests, timers, promises>>
                ELSE /\ timers' = after.timers
                     /\ pendingRequests' = after.pendingRequests
                     /\ promises' = after.promises
     ELSE IF isBridgeEvent(data)
     THEN LET ev == Get(data, "event").v
              run == ForEach(ev, Get(data, "data"))
          IN /\ lastLog' = LogCalls("debug", "Received event", [event |-> ev])
             /\ invoked' = (IF LogThrows THEN <<>> ELSE run.calls)
             /\ threw' = (LogThrows \/ run.threw)
             /\ eventListeners' = (IF LogThrows THEN eventListeners ELSE run.map)
             /\ unsubs' = (IF LogThrows THEN unsubs ELSE run.unsubs)
             /\ hung' = (~LogThrows /\ run.hung)
             /\ UNCHANGED <<pendingRequests, timers, promises>>
     ELSE /\ lastLog' = LogCalls("warn", "Invalid message structure", Undef)
          /\ threw' = LogThrows
          /\ invoked' = <<>>
          /\ UNCHANGED <<pendingRequests, timers, promises, eventListeners, unsubs, hung, classified>>

(***************************************************************************)
(* addEventListener(event, callback), bridge.ts:109-124.                   *)
(***************************************************************************)
addEventListener(event, callback) ==
  /\ eventListeners' = AddListener(eventListeners, event, callback)
  /\ unsubs' = Append(unsubs, [event |-> event, callback |-> callback, called |-> FALSE])
  /\ lastOp' = "addEventListener"
  /\ Idle
  /\ UNCHANGED <<window, hung, classified>>
  /\ lastLog' = <<>>
  /\ invoked' = <<>>
  /\ threw' = FALSE
  /\ UNCHANGED <<native, logger, messageIdCounter, pendingRequests, timers, promises, sent>>

\* The closure returned by the u-th addEventListener call, bridge.ts:115-123.
\* It captures event and callback, and looks the channel's set up when called.
Unsubscribe(u) ==
  /\ u \in DOMAIN unsubs
  /\ eventListeners' = RemoveListener(eventListeners, unsubs[u].event, unsubs[u].callback)
  /\ unsubs' = [unsubs EXCEPT ![u].called = TRUE]
  /\ lastOp' = "unsubscribe"
  /\ Idle
  /\ UNCHANGED <<window, hung, classified>>
  /\ lastLog' = <<>>
  /\ invoked' = <<>>
  /\ threw' = FALSE
  /\ UNCHANGED <<native, logger, messageIdCounter, pendingRequests, timers, promises, sent>>

\* setLogger(fn), bridge.ts:18-20
setLogger(fn) ==
  /\ logger' = fn
  /\ lastOp' = "setLogger"
  /\ Idle
  /\ UNCHANGED <<window, hung, classified>>
  /\ lastLog' = <<>>
  /\ invoked' = <<>>
  /\ threw' = FALSE
  /\ UNCHANGED <<native, messageIdCounter, pendingRequests, timers, promises,
                 eventListeners, unsubs, sent>>

\* The embedding attaches or removes window.ReactNativeWebView.
SetHost(present) ==
  /\ native # present
  /\ native' = present
  /\ lastOp' = "setHost"
  /\ Idle
  /\ UNCHANGED <<window, hung, classified>>
  /\ lastLog' = <<>>
  /\ invoked' = <<>>
  /\ threw' = FALSE
  /\ UNCHANGED <<logger, messageIdCounter, pendingRequests, timers, promises,
                 eventListeners, unsubs, sent>>

(***************************************************************************)
(* The steps of the environment: the page calls the exported functions,    *)
(* the host delivers messages, timers fire.  The caps keep the model       *)
(* finite; they are not part of the program.                               *)
(***************************************************************************)
CanSend(calls, counter) ==
  /\ Len(promises) < calls
  /\ native => messageIdCounter < counter

CanPost(counter) == native => messageIdCounter < counter

CanSubscribe(event, callback, subs) == Len(unsubs) < subs

Next ==
  \/ \E rq \in Requests, t \in 0..MaxNow :
        CanSend(MaxCalls, MaxCounter) /\ sendMessage(rq[1], rq[2], t)
  \/ \E rq \in Requests, t \in 0..MaxNow :
        CanPost(MaxCounter) /\ postMessage(rq[1], rq[2], t)
  \/ \E p \in timers : TimerFire(p)
  \/ \E m \in IncomingMessages : handleNativeMessage(m)
  \/ \E event \in Channels, callback \in Callbacks :
        CanSubscribe(event, callback, MaxSubs) /\ addEventListener(event, callback)
  \/ \E u \in DOMAIN unsubs : Unsubscribe(u)
  \/ \E fn \in Loggers : setLogger(fn)
  \/ \E present \in BOOLEAN : SetHost(present)

Spec == Init /\ [][Next]_vars

(***************************************************************************)
(* SpecIds: the id generator and the wire on their own, with more sends    *)
(* and two clock values.  Only the operations that generate ids or         *)
(* decide whether one is generated take part.                              *)
(***************************************************************************)
NextIds ==
  \/ \E rq \in Requests, t \in 0..IdNow :
        CanSend(IdCalls, IdCounter) /\ sendMessage(rq[1], rq[2], t)
  \/ \E rq \in Requests, t \in 0..IdNow :
        CanPost(IdCounter) /\ postMessage(rq[1], rq[2], t)
  \/ \E fn \in Loggers : setLogger(fn)
  \/ \E present \in BOOLEAN : SetHost(present)

SpecIds == Init /\ [][NextIds]_vars

(***************************************************************************)
(* SpecResults: the request/response round trip with every kind of result  *)
(* value (absent, null, two different strings).  Requests are sent, the    *)
(* host answers the pending ones with success=true, timers fire.           *)
(***************************************************************************)
ResultData == {Absent, Null, Str("v"), Str("d1")}

ResultMessages ==
  {JsonText(ResponseObj(id, TRUE, d, Absent, Absent)) :
      id \in DOMAIN pendingRequests, d \in ResultData}

NextResults ==
  \/ \E rq \in Requests, t \in 0..MaxNow :
        CanSend(MaxCalls, MaxCounter) /\ sendMessage(rq[1], rq[2], t)
  \/ \E p \in timers : TimerFire(p)
  \/ \E m \in ResultMessages : handleNativeMessage(m)
  \/ \E fn \in Loggers : setLogger(fn)

SpecResults == Init /\ [][NextResults]_vars

(***************************************************************************)
(* SpecHub: the event hub on its own, with two channels, three callbacks   *)
(* (one of which throws) and up to HubSubs registrations.                  *)
(***************************************************************************)
HubSubs == 3
HubChannels == {"network.change", "push.message"}
HubCallbacks == {"cbA", "cbB", "cbThrow"}
HubData == {Str("d1"), Null}

HubMessages ==
  {Structured(EventObj(ev, d)) : ev \in HubChannels, d \in HubData}
  \cup {JsonText(EventObj(ev, Str("d1"))) : ev \in HubChannels}

NextHub ==
  \/ \E event \in HubChannels, callback \in HubCallbacks :
        CanSubscribe(event, callback, HubSubs) /\ addEventListener(event, callback)
  \/ \E u \in DOMAIN unsubs : Unsubscribe(u)
  \/ \E m \in HubMessages : handleNativeMessage(m)
  \/ \E fn \in Loggers : setLogger(fn)

SpecHub == Init /\ [][NextHub]_vars

(***************************************************************************)
(* SpecLog: every logging point of the bridge, with one request and        *)
(* incoming messages that differ in their data values.                     *)
(***************************************************************************)
LogSends == 1
LogIds == 2

LogMessages ==
  {JsonText(Garbage)}
  \cup {JsonText(v) : v \in OtherValues}
  \cup {JsonText(ResponseObj(id, TRUE, d, Absent, Absent)) :
           id \in AnswerableIds \ {NoId}, d \in ResultData}
  \cup {JsonText(ResponseObj(id, FALSE, Absent, e, Absent)) :
           id \in DOMAIN pendingRequests, e \in ErrorValues}
  \cup {Structured(EventObj(ev, d)) : ev \in Channels, d \in HubData}

NextLog ==
  \/ \E rq \in Requests, t \in 0..MaxNow :
        CanSend(LogSends, LogIds) /\ sendMessage(rq[1], rq[2], t)
  \/ \E rq \in Requests, t \in 0..MaxNow :
        CanPost(LogIds) /\ postMessage(rq[1], rq[2], t)
  \/ \E p \in timers : TimerFire(p)
  \/ \E m \in LogMessages : handleNativeMessage(m)
  \/ \E event \in Channels, callback \in Callbacks :
        CanSubscribe(event, callback, LogSends) /\ addEventListener(event, callback)
  \/ \E fn \in Loggers : setLogger(fn)

SpecLog == Init /\ [][NextLog]_vars

(***************************************************************************)
(* The SDK entry points, index.ts:51-77.  initAppo returns window.appo if  *)
(* it is set; otherwise it calls initializeBridge, creates the instance    *)
(* and stores it in window.appo.  getAppo returns window.appo if it is     *)
(* set and calls initAppo otherwise.                                       *)
(***************************************************************************)
AppoPresentNever == FALSE
AppoPresent == window.appo # 0

\* the body of initAppo from line 56 on
InitAppoBody ==
  /\ window' = IF AppoPresent
               THEN [window EXCEPT !.returned = window.appo]
               ELSE [appo |-> window.created + 1,
                     created |-> window.created + 1,
                     bridgeInits |-> window.bridgeInits + 1,
                     returned |-> window.created + 1]
  /\ Idle
  /\ lastLog' = <<>>
  /\ invoked' = <<>>
  /\ threw' = FALSE
  /\ UNCHANGED <<native, logger, messageIdCounter, pendingRequests, timers, promises,
                 eventListeners, unsubs, sent, hung, classified>>

initAppo ==
  /\ InitAppoBody
  /\ lastOp' = "initAppo"

getAppo ==
  /\ IF AppoPresent
     THEN /\ Idle
          /\ window' = [window EXCEPT !.returned = window.appo]
          /\ lastLog' = <<>>
          /\ invoked' = <<>>
          /\ threw' = FALSE
          /\ UNCHANGED <<native, logger, messageIdCounter, pendingRequests, timers,
                         promises, eventListeners, unsubs, sent, hung, classified>>
     ELSE InitAppoBody
  /\ lastOp' = "getAppo"

\* A message event on window: it reaches handleNativeMessage once
\* initializeBridge has registered it (bridge.ts:166-170).
WindowMessage(m) ==
  /\ window.bridgeInits > 0
  /\ handleNativeMessage(m)

(***************************************************************************)
(* SpecInit: initialisation of the SDK, with the bridge in use.            *)
(***************************************************************************)
InitCalls == 2

CanInit(calls) == window.created < calls

NextInit ==
  \/ CanInit(InitCalls) /\ initAppo
  \/ CanInit(InitCalls) /\ getAppo
  \/ \E m \in LogMessages : WindowMessage(m)
  \/ \E rq \in Requests, t \in 0..MaxNow :
        CanSend(InitCalls, InitCalls) /\ sendMessage(rq[1], rq[2], t)
  \/ \E event \in Channels, callback \in Callbacks :
        CanSubscribe(event, callback, InitCalls) /\ addEventListener(event, callback)
  \/ \E present \in BOOLEAN : SetHost(present)

SpecInit == Init /\ [][NextInit]_vars

(***************************************************************************)
(* The feature shims (src/features).  A request method checks              *)
(* isNativeEnvironment itself: without a host it returns its fallback (an  *)
(* async function: the promise it returns is resolved with the value, or   *)
(* rejected with the Error it throws), with a host it returns              *)
(* sendMessage(type, payload).  `fallback` is the set of fallback outcomes *)
(* (more than one where the value comes from the browser).                 *)
(***************************************************************************)
ShimRequests ==
  { [name |-> "push.requestPermission", payload |-> Undefined,
     fallback |-> {Resolved(Str("denied"))}],
    [name |-> "push.getToken", payload |-> Undefined,
     fallback |-> {Resolved(Null)}],
    [name |-> "biometrics.isAvailable", payload |-> Undefined,
     fallback |-> {Resolved(Bool(FALSE))}],
    [name |-> "biometrics.authenticate", payload |-> "p1",
     fallback |-> {Resolved(Bool(FALSE))}],
    [name |-> "camera.requestPermission", payload |-> Undefined,
     fallback |-> {Resolved(Str("denied"))}],
    [name |-> "camera.takePicture", payload |-> Undefined,
     fallback |-> {Thrown("Camera not available outside native environment")}],
    [name |-> "location.requestPermission", payload |-> Undefined,
     fallback |-> {Resolved(Str("denied"))}],
    [name |-> "location.getCurrentPosition", payload |-> Undefined,
     fallback |-> {Thrown("Location not available outside native environment")}],
    [name |-> "storage.get", payload |-> "p1",
     fallback |-> {Resolved(Null), Resolved(Str("v"))}],
    [name |-> "storage.set", payload |-> "p1",
     fallback |-> {Resolved(Undef)}],
    [name |-> "storage.delete", payload |-> "p1",
     fallback |-> {Resolved(Undef)}],
    [name |-> "share.open", payload |-> "p1",
     fallback |-> {Resolved(Obj("success" :> Bool(TRUE))),
                   Resolved(Obj("success" :> Bool(FALSE)))}],
    [name |-> "network.getStatus", payload |-> Undefined,
     fallback |-> {Resolved(Obj("type" :> Str("unknown")))}],
    [name |-> "device.getInfo", payload |-> Undefined,
     fallback |-> {Resolved(Obj("osVersion" :> Str("web")))}] }

\* haptics.impact / haptics.notification: fire-and-forget
ShimPosts == {"haptics.impact", "haptics.notification"}

\* push.onMessage and push.onResponse call addEventListener directly;
\* network.onChange does so only with a host (guarded), and listens to the
\* browser's online/offline events otherwise.
ShimSubscriptions ==
  { [name |-> "push.onMessage", channel |-> "push.message", guarded |-> FALSE],
    [name |-> "push.onResponse", channel |-> "push.response", guarded |-> FALSE],
    [name |-> "network.onChange", channel |-> "network.change", guarded |-> TRUE] }

\* effects common to the fallback branches: nothing is logged or invoked
ShimReturns ==
  /\ Idle
  /\ lastOp' = "shim"
  /\ lastLog' = <<>>
  /\ invoked' = <<>>
  /\ threw' = FALSE
  /\ UNCHANGED <<native, logger, messageIdCounter, pendingRequests, timers,
                 eventListeners, unsubs, sent, window, hung, classified>>

ShimRequest(s, o, t) ==
  IF ~isNativeEnvironment
  THEN /\ promises' = Append(promises, [type |-> s.name, id |-> NoId, outcome |-> o])
       /\ ShimReturns
  ELSE sendMessage(s.name, s.payload, t)

ShimPost(type, t) ==
  IF ~isNativeEnvironment
  THEN UNCHANGED promises /\ ShimReturns
  ELSE postMessage(type, "p1", t)

\* The listener a shim registers is a new arrow function on every call:
\* (data) => { callback(data) }.
Wrapper(n) == "wrapper" \o ToString(n)

ShimSubscribe(s) ==
  IF s.guarded /\ ~isNativeEnvironment
  THEN UNCHANGED promises /\ ShimReturns
  ELSE addEventListener(s.channel, Wrapper(Len(unsubs) + 1))

(***************************************************************************)
(* SpecShims: the feature shims over the bridge, with the host attaching   *)
(* and detaching.                                                          *)
(***************************************************************************)
ShimCalls == 1

ShimMessages ==
  {Structured(EventObj(s.channel, Str("d1"))) : s \in ShimSubscriptions}
  \cup {JsonText(ResponseObj(id, TRUE, Str("d1"), Absent, Absent)) :
           id \in DOMAIN pendingRequests}

NextShims ==
  \/ \E s \in ShimRequests, t \in 0..MaxNow :
        \E o \in s.fallback : CanSend(ShimCalls, ShimCalls) /\ ShimRequest(s, o, t)
  \/ \E type \in ShimPosts, t \in 0..MaxNow :
        CanPost(ShimCalls) /\ ShimPost(type, t)
  \/ \E s \in ShimSubscriptions :
        Len(unsubs) < ShimCalls /\ ShimSubscribe(s)
  \/ \E u \in DOMAIN unsubs : Unsubscribe(u)
  \/ \E m \in ShimMessages : handleNativeMessage(m)
  \/ \E p \in timers : TimerFire(p)
  \/ \E present \in BOOLEAN : SetHost(present)

SpecShims == Init /\ [][NextShims]_vars

(***************************************************************************)
(* SpecDelivery: event delivery with listeners that call back into the     *)
(* bridge while the event is being delivered.                              *)
(***************************************************************************)
DeliverySubs == 3
DeliveryChannels == {"network.change"}
DeliveryCallbacks == {"cbA", "cbB", "cbSub", "cbUnsub", "cbRearm"}
DeliveryMessages == {Structured(EventObj(ev, Str("d1"))) : ev \in DeliveryChannels}

NextDelivery ==
  \/ \E event \in DeliveryChannels, callback \in DeliveryCallbacks :
        CanSubscribe(event, callback, DeliverySubs) /\ addEventListener(event, callback)
  \/ \E u \in DOMAIN unsubs : Unsubscribe(u)
  \/ \E m \in DeliveryMessages : handleNativeMessage(m)

SpecDelivery == Init /\ [][NextDelivery]_vars

(***************************************************************************)
(* SpecGuards: the type guards of types.ts applied to arbitrary values:    *)
(* null, undefined, primitives, arrays, and objects whose id, success and  *)
(* event fields are missing, undefined, or of any type.                    *)
(***************************************************************************)
GuardIds == {Absent, Undef, Null, Num(1), Str("msg_1")}
GuardSuccesses == {Absent, Null, Str("true"), Bool(TRUE), Bool(FALSE)}
GuardEvents == {Absent, Undef, Num(1), Str("push.message")}

GuardValues ==
  {Null, Undef, Str("msg_1"), Str(""), Num(0), Num(1), Bool(TRUE), Bool(FALSE)}
  \cup {Obj(EmptyMap), Obj("random" :> Str("data")),
        Obj(("0" :> Str("id")) @@ ("1" :> Str("success")) @@ ("length" :> Num(2)))}
  \cup {Obj(Opt("id", i) @@ Opt("success", u) @@ Opt("event", e) @@ Opt("data", d)) :
          i \in GuardIds, u \in GuardSuccesses, e \in GuardEvents, d \in {Absent, Obj(EmptyMap)}}

Classify(x) ==
  /\ classified' = [value |-> x, response |-> isBridgeResponse(x),
                    event |-> isBridgeEvent(x), called |-> TRUE]
  /\ lastOp' = "classify"
  /\ UNCHANGED <<native, logger, messageIdCounter, pendingRequests, timers, promises,
                 eventListeners, unsubs, sent, lastLog, invoked, threw, window, hung>>

NextGuards == \E x \in GuardValues : Classify(x)

SpecGuards == Init /\ [][NextGuards]_vars

(***************************************************************************)
(* Helpers of the properties.                                              *)
(***************************************************************************)
Settled(p) == promises[p].outcome # Pending
ByResponse(p) ==
  \/ promises[p].outcome.state = "resolved"
  \/ promises[p].outcome.state = "rejected" /\ promises[p].outcome.code = "NATIVE_ERROR"
IsPendingEntry(p) ==
  /\ promises[p].id \in DOMAIN pendingRequests
  /\ pendingRequests[promises[p].id] = p

C2_RoutedById ==
  [][(/\ lastOp' = "handleNativeMessage"
      /\ <<promises, timers, pendingRequests>>' # <<promises, timers, pendingRequests>>) =>
     \A m \in IncomingMessages :
       (handleNativeMessage(m) /\ isBridgeResponse(Decode(m))) =>
         \A p \in DOMAIN promises :
           /\ promises[p].id # Get(Decode(m), "id").v =>
                /\ promises'[p] = promises[p]
                /\ (p \in timers) = (p \in timers')
                /\ IsPendingEntry(p) = IsPendingEntry(p)'
           /\ promises'[p] # promises[p] =>
                /\ promises[p].id = Get(Decode(m), "id").v
                /\ promises'[p].outcome = ResponseOutcome(promises[p].type, Decode(m))]_vars

\* C2 witness: two requests were pending at once and the response to the
\* second one, sent later, has settled it while the first is still pending.
C2_Witness ==
  /\ Len(promises) = 2
  /\ lastOp = "handleNativeMessage"
  /\ promises[1].outcome = Pending /\ 1 \in timers /\ IsPendingEntry(1)
  /\ promises[2].outcome = Resolved(Str("d1"))
  /\ 2 \notin timers /\ ~IsPendingEntry(2)

\* C3: once a matching response has settled a request, its timer is
\* cancelled: the timer is not armed in any later state, and no step
\* produces a "Request timed out" log entry for that request's id.
TimeoutLogged(log, id) ==
  \E i \in DOMAIN log : log[i].message = "Request timed out" /\ log[i].data.id = id

C3_NoTimeoutAfterResponse ==
  /\ [](\A p \in DOMAIN promises : ByResponse(p) => p \notin timers)
  /\ [][\A p \in DOMAIN promises :
          ByResponse(p) =>
            /\ p \notin timers'
            /\ promises'[p] = promises[p]
            /\ (lastOp' = "timer" => ~TimeoutLogged(lastLog', promises[p].id))]_vars

\* C3 witness: a logged response has settled a request, and afterwards a timer
\* (that of another request) has fired and was logged.
C3_Witness ==
  /\ Len(promises) = 2
  /\ ByResponse(1)
  /\ lastOp = "timer"
  /\ TimeoutLogged(lastLog, promises[2].id)
  /\ promises[2].outcome = Rejected("TIMEOUT", "Request timed out", promises[2].type)

\* C4: every promise returned by sendMessage eventually settles, as resolved
\* or as rejected with NOT_NATIVE, NATIVE_ERROR or TIMEOUT; no request stays
\* pending forever.  In the form a finite run refutes: a settled promise has
\* one of those outcomes, and an unsettled promise still has its armed timer
\* (the only thing left to settle it once its table entry is gone).
C4_EventuallySettles ==
  \A p \in DOMAIN promises :
    /\ Settled(p) /\ promises[p].outcome.state = "rejected" =>
         promises[p].outcome.code \in {"NOT_NATIVE", "NATIVE_ERROR", "TIMEOUT"}
    /\ ~Settled(p) => p \in timers

\* C5: when a request's timer fires while the request is still pending, the
\* entry leaves the table and the caller is rejected with TIMEOUT and the
\* originating type as detail.
C5_TimeoutOutcome ==
  [][\A p \in DOMAIN promises :
       (lastOp' = "timer" /\ p \in timers /\ p \notin timers' /\ ~Settled(p)) =>
          /\ promises[p].id \notin DOMAIN pendingRequests'
          /\ promises'[p].outcome = Rejected("TIMEOUT", "Request timed out", promises[p].type)]_vars

\* C6: a Response-shaped message whose id is not pending is a no-op:
\* handleNativeMessage does not throw and the table, the timers and the
\* promises are unchanged.
C6_UnknownResponseNoOp ==
  [][lastOp' = "handleNativeMessage" =>
     \A m \in IncomingMessages :
       (/\ handleNativeMessage(m)
        /\ isBridgeResponse(Decode(m))
        /\ Get(Decode(m), "id").v \notin DOMAIN pendingRequests) =>
          /\ ~threw'
          /\ UNCHANGED <<pendingRequests, timers, promises>>]_vars

\* C7: sendMessage called while no host is reachable rejects with NOT_NATIVE
\* and does nothing else: nothing transmitted, no table entry, no timer, no
\* id consumed, nothing logged.
C7_NotReachable ==
  [][(lastOp' = "sendMessage" /\ Len(promises') = Len(promises) + 1 /\ ~native) =>
       /\ promises'[Len(promises')].outcome =
            Rejected("NOT_NATIVE", "Not running in native environment", Undefined)
       /\ promises'[Len(promises')].id = NoId
       /\ lastLog' = <<>>
       /\ UNCHANGED <<sent, pendingRequests, timers, messageIdCounter>>]_vars

\* C7 witness: a call made while unreachable was rejected, after an earlier
\* request had been transmitted (so there was state to disturb).
C7_Witness ==
  /\ lastOp = "sendMessage"
  /\ ~native
  /\ Len(promises) = 2
  /\ promises[2].outcome.state = "rejected" /\ promises[2].outcome.code = "NOT_NATIVE"
  /\ promises[1].outcome = Pending /\ 1 \in timers
  /\ Len(sent) = 1

\* C8: the ids of all transmitted envelopes, from sendMessage and postMessage
\* alike, are pairwise distinct, also at one timestamp; no two requests
\* registered by sendMessage share an id.
C8_UniqueIds ==
  /\ \A i, j \in DOMAIN sent : i # j => sent[i].id # sent[j].id
  /\ \A p, q \in DOMAIN promises :
       (p # q /\ promises[p].id # NoId) => promises[p].id # promises[q].id

\* C8 witness: three envelopes were sent, two of them at the same timestamp,
\* one by postMessage (its id belongs to no promise).
C8_Witness ==
  /\ Len(sent) = 3
  /\ \E i, j \in DOMAIN sent :
       /\ sent[i].id = "msg_0_1" /\ sent[j].id = "msg_0_2"
  /\ \E i \in DOMAIN sent : \A p \in DOMAIN promises : promises[p].id # sent[i].id
  /\ \E i \in DOMAIN sent : \E p \in DOMAIN promises : promises[p].id = sent[i].id

\* C9: each sendMessage call made while the host is reachable (with a
\* payload that can be serialised) transmits exactly one envelope within the
\* call, carrying the caller's type and payload and the id under which the
\* pending entry is registered.
EnvelopePayload(e) == IF "payload" \in DOMAIN e THEN e.payload ELSE Undefined

C9_OneEnvelopePerSend ==
  [][(lastOp' = "sendMessage" /\ native) =>
     \A rq \in Requests, t \in 0..MaxNow :
       (sendMessage(rq[1], rq[2], t) /\ rq[2] # Circular) =>
          /\ Len(sent') = Len(sent) + 1
          /\ SubSeq(sent', 1, Len(sent)) = sent
          /\ LET e == sent'[Len(sent')]
                 p == Len(promises')
             IN /\ e.type = rq[1]
                /\ EnvelopePayload(e) = rq[2]
                /\ e.id \in DOMAIN pendingRequests'
                /\ pendingRequests'[e.id] = p
                /\ promises'[p].id = e.id]_vars

\* C10: a matching response with success=false (carrying an error text)
\* rejects the caller with NATIVE_ERROR, that text as message and the
\* originating type as detail.
C10_HostReportedFailure ==
  [][lastOp' = "handleNativeMessage" =>
     \A m \in IncomingMessages :
       (/\ handleNativeMessage(m)
        /\ isBridgeResponse(Decode(m))
        /\ Get(Decode(m), "success").v = FALSE
        /\ Get(Decode(m), "error").t = "string"
        /\ Get(Decode(m), "error").v # ""
        /\ Get(Decode(m), "id").v \in DOMAIN pendingRequests) =>
          LET p == pendingRequests[Get(Decode(m), "id").v]
          IN ~Settled(p) =>
               promises'[p].outcome =
                 Rejected("NATIVE_ERROR", Get(Decode(m), "error").v, promises[p].type)]_vars

\* C11: a matching response with success=true resolves the caller with
\* exactly that response's data value (also when data is null or absent), so
\* each of two successive requests is resolved with its own response's data.
C11_SuccessResult ==
  [][lastOp' = "handleNativeMessage" =>
     \A m \in ResultMessages :
       handleNativeMessage(m) =>
         LET p == pendingRequests[Get(Decode(m), "id").v]
         IN ~Settled(p) =>
              promises'[p].outcome = Resolved(Get(Decode(m), "data"))]_vars

(***************************************************************************)
(* Helpers of the event hub properties.                                    *)
(***************************************************************************)
Listeners(ev) == IF ev \in DOMAIN eventListeners THEN eventListeners[ev] ELSE <<>>
Registered(ev, cb) == \E i \in DOMAIN Listeners(ev) : Listeners(ev)[i] = cb
CallsTo(calls, cb) == {i \in DOMAIN calls : calls[i].cb = cb}
InvokedWith(calls, cb, d) == \E i \in CallsTo(calls, cb) : calls[i].data = d

\* C12: calling a listener's unsubscribe function takes that listener, and
\* no other, off its channel; from then on an event on the channel does not
\* invoke it (unless it was registered again), while every other listener
\* still registered on the channel is invoked with each such event.
C12_UnsubscribeStopsDelivery ==
  /\ [][lastOp' = "unsubscribe" =>
         \A u \in DOMAIN unsubs :
           Unsubscribe(u) =>
             LET ev == unsubs[u].event IN
             /\ ~Registered(ev, unsubs[u].callback)'
             /\ \A c \in HubCallbacks \ {unsubs[u].callback} :
                  Registered(ev, c) => Registered(ev, c)']_vars
  /\ [][lastOp' = "handleNativeMessage" =>
         \A m \in HubMessages :
           handleNativeMessage(m) =>
             LET ev == Get(Decode(m), "event").v
                 d == Get(Decode(m), "data")
             IN \A u \in DOMAIN unsubs :
                  (unsubs[u].called /\ unsubs[u].event = ev) =>
                    /\ ~Registered(ev, unsubs[u].callback) =>
                         CallsTo(invoked', unsubs[u].callback) = {}
                    /\ \A c \in HubCallbacks \ {unsubs[u].callback} :
                         Registered(ev, c) => InvokedWith(invoked', c, d)]_vars

\* C13: for each incoming event on a channel, every listener registered on
\* that channel is invoked exactly once with the event's data, in the order
\* in which the listeners were registered.
C13_FanOutInOrder ==
  [][lastOp' = "handleNativeMessage" =>
     \A m \in HubMessages :
       handleNativeMessage(m) =>
         LET ls == Listeners(Get(Decode(m), "event").v)
             d == Get(Decode(m), "data")
         IN invoked' = [i \in 1..Len(ls) |-> [cb |-> ls[i], data |-> d]]]_vars

\* C14: if a listener throws while an event is being delivered, every
\* listener registered after it on the same channel is still invoked with
\* that event.
C14_FailureIsolation ==
  [][lastOp' = "handleNativeMessage" =>
     \A m \in HubMessages :
       handleNativeMessage(m) =>
         LET ls == Listeners(Get(Decode(m), "event").v)
             d == Get(Decode(m), "data")
         IN \A i, j \in DOMAIN ls :
              (i < j /\ CallbackThrows(ls[i]) /\ CallsTo(invoked', ls[i]) # {}) =>
                 InvokedWith(invoked', ls[j], d)]_vars

\* C15: calling an unsubscribe function a second or later time changes
\* nothing in the event hub, whatever happened since its first call: it
\* removes no listener, not even a registration of the same callback on the
\* same channel made after the first call.
C15_UnsubscribeIdempotent ==
  [][lastOp' = "unsubscribe" =>
     \A u \in DOMAIN unsubs :
       (Unsubscribe(u) /\ unsubs[u].called) => UNCHANGED eventListeners]_vars

\* C16: an incoming message that fails to parse, or that parses to a value
\* of neither the Response nor the Event shape, never makes
\* handleNativeMessage throw, and leaves the pending table, the timers, the
\* promise outcomes and the listener sets unchanged, with no listener invoked.
Malformed(m) ==
  \/ Decode(m) = ParseError
  \/ ~isBridgeResponse(Decode(m)) /\ ~isBridgeEvent(Decode(m))

C16_MalformedDropped ==
  [][lastOp' = "handleNativeMessage" =>
     \A m \in IncomingMessages :
       (handleNativeMessage(m) /\ Malformed(m)) =>
          /\ ~threw'
          /\ invoked' = <<>>
          /\ UNCHANGED <<pendingRequests, timers, promises, eventListeners>>]_vars

C18_LoggerFailuresContained ==
  [][logger = "throws" =>
     /\ (lastOp' = "sendMessage" /\ native) =>
          \A rq \in Requests, t \in 0..MaxNow :
            (sendMessage(rq[1], rq[2], t) /\ rq[2] # Circular) =>
               LET p == Len(promises')
               IN /\ Len(sent') = Len(sent) + 1
                  /\ promises'[p].outcome = Pending
                  /\ p \in timers'
                  /\ promises'[p].id \in DOMAIN pendingRequests'
                  /\ pendingRequests'[promises'[p].id] = p
     /\ lastOp' = "handleNativeMessage" =>
          \A m \in IncomingMessages :
            handleNativeMessage(m) =>
              /\ (\A ev \in Channels : ~Registered(ev, "cbThrow")) => ~threw'
              /\ (/\ isBridgeResponse(Decode(m))
                  /\ Get(Decode(m), "id").v \in DOMAIN pendingRequests) =>
                    LET p == pendingRequests[Get(Decode(m), "id").v]
                    IN ~Settled(p) =>
                         promises'[p].outcome = ResponseOutcome(promises[p].type, Decode(m))
     /\ lastOp' = "timer" =>
          \A p \in timers :
            (TimerFire(p) /\ ~Settled(p)) =>
               promises'[p].outcome =
                 Rejected("TIMEOUT", "Request timed out", promises[p].type)]_vars

(***************************************************************************)
(* Helpers of the logging properties.                                      *)
(***************************************************************************)
\* the logger call a logging point makes, if an observer is set
Logged(level, message, data) ==
  IF logger = "none" THEN <<>>
  ELSE <<[by |-> logger, level |-> level, message |-> message, data |-> data]>>

\* m with its data value replaced by d (for a message that is an object)
WithData(m, d) ==
  LET v == Decode(m)
      w == Obj([k \in DOMAIN v.f \ {"data"} |-> v.f[k]] @@ Opt("data", d))
  IN IF v = ParseError \/ ~IsObject(v) THEN m
     ELSE IF m.text THEN JsonText(w) ELSE Structured(w)

DataVariants(m) == {WithData(m, d) : d \in ResultData \cup HubData}

\* the logger call handleNativeMessage makes for message m
IngestLog(m) ==
  LET v == Decode(m) IN
  IF v = ParseError THEN Logged("warn", "Failed to parse message", Undef)
  ELSE IF isBridgeResponse(v) /\ Get(v, "id").v \in DOMAIN pendingRequests
  THEN Logged("debug", "Received response", [id |-> Get(v, "id").v])
  ELSE IF isBridgeEvent(v)
  THEN Logged("debug", "Received event", [event |-> Get(v, "event").v])
  ELSE Logged("warn", "Invalid message structure", Undef)

\* a log entry's data is undefined or made of a type, an id, an event name
PublicFields == {{"t"}, {"type", "id"}, {"id"}, {"event"}}

\* C19: the data handed to the logger never contains a request payload, a
\* response's data or an event's data: it is undefined or made of the type,
\* the id and the event name only, and the logger calls of a step are the
\* same for every payload of the request sent and for every data value of
\* the message received, so runs that differ only in those values produce
\* the same sequence of logger calls.
C19_LogConfidential ==
  [][/\ \A i \in DOMAIN lastLog' : DOMAIN lastLog'[i].data \in PublicFields
     /\ lastOp' = "sendMessage" =>
          \A rq \in Requests, t \in 0..MaxNow :
            sendMessage(rq[1], rq[2], t) =>
              lastLog' = IF native
                         THEN Logged("debug", "Sending message",
                                [type |-> rq[1],
                                 id |-> generateMessageId(t, messageIdCounter + 1)])
                         ELSE <<>>
     /\ lastOp' = "handleNativeMessage" =>
          \A m \in LogMessages :
            handleNativeMessage(m) =>
              \A m2 \in DataVariants(m) : lastLog' = IngestLog(m2)
     /\ lastOp' = "timer" =>
          \A p \in timers :
            TimerFire(p) =>
              lastLog' = Logged("warn", "Request timed out",
                           [type |-> promises[p].type, id |-> promises[p].id])
     /\ lastOp' \in {"postMessage", "addEventListener", "unsubscribe", "setLogger"} =>
          lastLog' = <<>>]_vars

\* C19 witness: a request with a payload was sent, a response carrying data
\* has resolved it and an event carrying data was delivered to a listener,
\* each with an observer set.
C19_Witness ==
  /\ Len(sent) = 1 /\ EnvelopePayload(sent[1]) = "p1"
  /\ Len(promises) = 1 /\ promises[1].outcome = Resolved(Str("v"))
  /\ lastOp = "handleNativeMessage"
  /\ lastLog = <<[by |-> "ok", level |-> "debug", message |-> "Received event",
                  data |-> [event |-> "network.change"]]>>
  /\ invoked = <<[cb |-> "cbA", data |-> Str("d1")]>>

\* C20: the logger slot holds the observer most recently passed to
\* setLogger (no other step changes it), every logger call of a step goes to
\* that observer, and while the slot holds null no observer is called.
C20_LoggerSlot ==
  [][/\ lastOp' = "setLogger" => \E fn \in Loggers : setLogger(fn) /\ logger' = fn
     /\ lastOp' # "setLogger" =>
          /\ logger' = logger
          /\ \A i \in DOMAIN lastLog' : lastLog'[i].by = logger
          /\ logger = "none" => lastLog' = <<>>]_vars

\* C20 witness: a throwing observer was installed when the request was sent
\* (its exception rejected the promise), the slot was then set to null, and a
\* message has been ingested without any logger call.
C20_Witness ==
  /\ Len(promises) = 1 /\ promises[1].outcome = Thrown("logger")
  /\ logger = "none"
  /\ lastOp = "handleNativeMessage"
  /\ lastLog = <<>>

\* C21: addEventListener registers the listener whether or not a host is
\* reachable, and every registered listener (so also one registered while
\* unreachable) is invoked with each later event on its channel, whatever
\* the reachability when the event arrives.
C21_SubscribeAnyReachability ==
  /\ [][lastOp' = "addEventListener" =>
         \A ev \in Channels, cb \in Callbacks :
           addEventListener(ev, cb) => Registered(ev, cb)']_vars
  /\ [][lastOp' = "handleNativeMessage" =>
         \A m \in IncomingMessages :
           (/\ handleNativeMessage(m)
            /\ ~isBridgeResponse(Decode(m))
            /\ isBridgeEvent(Decode(m))) =>
              \A c \in Callbacks :
                Registered(Get(Decode(m), "event").v, c) =>
                  InvokedWith(invoked', c, Get(Decode(m), "data"))]_vars

\* C22: over any sequence of initAppo and getAppo calls every call returns
\* the instance the first call created, window.appo holds that instance, and
\* initializeBridge has been called exactly once, so the window message
\* handler is registered once.
C22_Singleton ==
  /\ [](window.bridgeInits <= 1 /\ window.created <= 1)
  /\ [][lastOp' \in {"initAppo", "getAppo"} =>
         /\ window'.returned = 1
         /\ window'.appo = 1
         /\ window'.bridgeInits = 1
         /\ (window.appo # 0 => window'.appo = window.appo)]_vars

\* C22 witness: getAppo has returned the instance after earlier calls, and a
\* host message delivered through the window handler has settled a request.
C22_Witness ==
  /\ lastOp = "getAppo"
  /\ window.returned = 1 /\ window.created = 1
  /\ Len(promises) = 1 /\ ByResponse(1)

\* C23: called while no host is reachable, push.onMessage and push.onResponse
\* return a no-op unsubscribe: the callback is not registered in the Event
\* Hub (the listener map is unchanged), so no later message invokes it.
C23_PushSubscribeFallback ==
  [][\A s \in ShimSubscriptions :
       (/\ s.name \in {"push.onMessage", "push.onResponse"}
        /\ ~isNativeEnvironment
        /\ ShimSubscribe(s))
       => /\ eventListeners' = eventListeners
          /\ unsubs' = unsubs]_vars

\* C24: camera.takePicture and location.getCurrentPosition called while no
\* host is reachable reject with an AppoError whose code is NOT_NATIVE, as
\* sendMessage does.
C24_CategorizedErrors ==
  [][\A s \in ShimRequests : \A o \in s.fallback :
       (/\ s.name \in {"camera.takePicture", "location.getCurrentPosition"}
        /\ ~isNativeEnvironment
        /\ ShimRequest(s, o, 0))
       => /\ promises'[Len(promises')].outcome.state = "rejected"
          /\ promises'[Len(promises')].outcome.code = "NOT_NATIVE"]_vars

\* The README's Browser Fallbacks table: the outcome o is the documented
\* fallback of the request method `name`.
DocumentedFallback(name, o) ==
  CASE name \in {"push.requestPermission", "camera.requestPermission",
                 "location.requestPermission"} -> o = Resolved(Str("denied"))
    [] name = "push.getToken" -> o = Resolved(Null)
    [] name \in {"biometrics.isAvailable", "biometrics.authenticate"} ->
         o = Resolved(Bool(FALSE))
    [] name \in {"camera.takePicture", "location.getCurrentPosition"} ->
         o.state = "rejected"
    [] name = "storage.get" -> o \in {Resolved(Null), Resolved(Str("v"))}
    [] name \in {"storage.set", "storage.delete"} -> o = Resolved(Undef)
    [] name = "share.open" ->
         o \in {Resolved(Obj("success" :> Bool(TRUE))),
                Resolved(Obj("success" :> Bool(FALSE)))}
    [] name = "network.getStatus" ->
         o.state = "resolved" /\ Get(o.data, "type") = Str("unknown")
    [] name = "device.getInfo" ->
         o.state = "resolved" /\ Get(o.data, "osVersion") = Str("web")

\* nothing goes on the wire and the correlation table is untouched
NoWireTraffic ==
  UNCHANGED <<sent, pendingRequests, timers, messageIdCounter>>

\* C25: a feature shim method called while no host is reachable transmits no
\* envelope, creates no pending entry and arms no timer, and returns or
\* throws its documented fallback: the documented value for a request
\* method, nothing at all for haptics, and for a subscription an unsubscribe
\* function with no listener registered in the Event Hub.
C25_NoWireTrafficWithoutHost ==
  [][~isNativeEnvironment =>
       /\ \A s \in ShimRequests : \A o \in s.fallback :
            ShimRequest(s, o, 0) =>
              /\ NoWireTraffic
              /\ DocumentedFallback(s.name, promises'[Len(promises')].outcome)
       /\ \A type \in ShimPosts :
            ShimPost(type, 0) => NoWireTraffic /\ UNCHANGED <<promises, eventListeners>>
       /\ \A s \in ShimSubscriptions :
            ShimSubscribe(s) => NoWireTraffic /\ UNCHANGED <<promises, eventListeners>>]_vars

\* C26: for every request id issued by sendMessage the three facts coincide
\* in every reachable state: the id is in the pending table, its timer is
\* armed, the caller's promise is unsettled.  No timer is armed for an id
\* that is not pending and no settled request remains in the table.
C26_CorrelationInvariant ==
  /\ \A p \in DOMAIN promises :
       promises[p].id # NoId =>
         /\ IsPendingEntry(p) <=> p \in timers
         /\ p \in timers <=> promises[p].outcome = Pending
  /\ \A p \in timers : p \in DOMAIN promises /\ IsPendingEntry(p)
  /\ \A id \in DOMAIN pendingRequests :
       /\ pendingRequests[id] \in DOMAIN promises
       /\ promises[pendingRequests[id]].id = id
       /\ promises[pendingRequests[id]].outcome = Pending

\* C27: every pending entry belongs to a request whose envelope was handed
\* to the host; when transmission fails inside sendMessage the caller is
\* rejected and no pending entry and no armed timer remain for that id.
C27_TransmissionFailureCleansUp ==
  /\ [](\A id \in DOMAIN pendingRequests : \E i \in DOMAIN sent : sent[i].id = id)
  /\ [][(/\ lastOp' = "sendMessage"
         /\ Len(promises') = Len(promises) + 1
         /\ promises'[Len(promises')].outcome = Thrown("transmit")) =>
          /\ promises'[Len(promises')].id \notin DOMAIN pendingRequests'
          /\ Len(promises') \notin timers']_vars

\* C29: a message of Response shape is never delivered to event listeners,
\* whether or not its id is pending and whatever other fields it carries.
C29_ResponseNeverPublished ==
  [][lastOp' = "handleNativeMessage" =>
     \A m \in IncomingMessages :
       (handleNativeMessage(m) /\ isBridgeResponse(Decode(m))) =>
          invoked' = <<>>]_vars

\* C28: in every state reached by addEventListener calls, unsubscribe calls
\* and event deliveries, no channel key of the listener map holds an empty
\* listener set: removing a channel's last listener removes its entry.
C28_NoEmptyChannel ==
  \A ev \in DOMAIN eventListeners : Len(eventListeners[ev]) > 0

\* C28 witness: the last listener of a channel has just been unsubscribed
\* and the channel's key is gone, while another channel keeps its listeners.
C28_Witness ==
  /\ lastOp = "unsubscribe"
  /\ "network.change" \notin DOMAIN eventListeners
  /\ "push.message" \in DOMAIN eventListeners
  /\ \E u \in DOMAIN unsubs :
       /\ unsubs[u].event = "network.change"
       /\ unsubs[u].called
       /\ \A v \in DOMAIN unsubs : unsubs[v].event = "network.change" => v <= u

\* C30: the listeners invoked for one incoming event are exactly those
\* registered on the channel when delivery begins, also when a listener
\* subscribes or unsubscribes listeners on the channel during the delivery.
C30_DeliverySnapshot ==
  [][lastOp' = "handleNativeMessage" =>
     \A m \in DeliveryMessages :
       handleNativeMessage(m) =>
         LET before == Listeners(Get(Decode(m), "event").v)
         IN {invoked'[i].cb : i \in DOMAIN invoked'} =
            {before[i] : i \in DOMAIN before}]_vars

\* C31: handling one incoming event invokes finitely many listeners and
\* returns, also when listeners register listeners on the channel during
\* the delivery: no delivery leaves the handler running for ever.
C31_DeliveryTerminates ==
  lastOp = "handleNativeMessage" => ~hung

\* C32: registering the same callback twice on a channel yields a single
\* registration: the channel's set holds it once, each event on the channel
\* invokes it exactly once, and calling either of the two unsubscribe
\* functions takes it off the channel, after which no event invokes it.
C32_DuplicateCollapses ==
  /\ [](\A ev \in DOMAIN eventListeners :
          \A i, j \in DOMAIN eventListeners[ev] :
            eventListeners[ev][i] = eventListeners[ev][j] => i = j)
  /\ [][lastOp' = "unsubscribe" =>
         \A u \in DOMAIN unsubs :
           Unsubscribe(u) => ~Registered(unsubs[u].event, unsubs[u].callback)']_vars
  /\ [][lastOp' = "handleNativeMessage" =>
         \A m \in HubMessages :
           handleNativeMessage(m) =>
             LET ev == Get(Decode(m), "event").v IN
             \A c \in HubCallbacks :
               Cardinality(ClosuresFor(unsubs, ev, c)) >= 2 =>
                 IF Registered(ev, c)
                 THEN Cardinality(CallsTo(invoked', c)) = 1
                 ELSE CallsTo(invoked', c) = {}]_vars

\* the operation that ran last was the ingestion of an event
EventJustDelivered ==
  /\ lastOp = "handleNativeMessage"
  /\ \/ invoked # <<>>
     \/ \E i \in DOMAIN lastLog : lastLog[i].message = "Received event"

\* C33: delivering an event (a message not of Response shape) while requests
\* are pending leaves the pending table, the timers and every promise
\* unchanged, and a pending request is still settled correctly by the
\* matching response that arrives after the event: the entry is removed,
\* the timer cleared and the promise settled with the response's outcome.
C33_EventsLeaveRequestsAlone ==
  /\ [][lastOp' = "handleNativeMessage" =>
         \A m \in IncomingMessages :
           (/\ handleNativeMessage(m)
            /\ ~isBridgeResponse(Decode(m))
            /\ isBridgeEvent(Decode(m))) =>
              UNCHANGED <<pendingRequests, timers, promises>>]_vars
  /\ [][(EventJustDelivered /\ lastOp' = "handleNativeMessage") =>
         \A m \in IncomingMessages :
           (/\ handleNativeMessage(m)
            /\ isBridgeResponse(Decode(m))
            /\ Get(Decode(m), "id").v \in DOMAIN pendingRequests) =>
              LET id == Get(Decode(m), "id").v
                  p == pendingRequests[id]
              IN /\ id \notin DOMAIN pendingRequests'
                 /\ p \notin timers'
                 /\ promises[p].outcome = Pending =>
                      promises'[p].outcome = ResponseOutcome(promises[p].type, Decode(m))]_vars

\* C34: an event on a channel invokes only listeners registered on that
\* channel, never one registered on another channel only; an event on a
\* channel with no listeners invokes nothing and does not throw.
C34_ChannelIsolation ==
  [][lastOp' = "handleNativeMessage" =>
     \A m \in HubMessages :
       handleNativeMessage(m) =>
         LET ev == Get(Decode(m), "event").v IN
         /\ \A i \in DOMAIN invoked' : Registered(ev, invoked'[i].cb)
         /\ ev \notin DOMAIN eventListeners => (invoked' = <<>> /\ ~threw')]_vars

\* C35: handleNativeMessage makes a warn-level logger call only for a
\* message that fails to decode or has neither the Response nor the Event
\* shape; a well-formed Response (its id pending or not) and a well-formed
\* Event never produce one.
C35_WarnOnlyForMalformed ==
  [][lastOp' = "handleNativeMessage" =>
     \A m \in IncomingMessages :
       (/\ handleNativeMessage(m)
        /\ \E i \in DOMAIN lastLog' : lastLog'[i].level = "warn") =>
          Malformed(m)]_vars

\* C36: with a logger installed, every request sent while a host is
\* reachable produces exactly one debug 'Sending message' call carrying its
\* type and id, and a warn 'Request timed out' call carrying the same type
\* and id is made if and only if that request ends by timeout.
C36_LoggingLifecycle ==
  /\ [][(lastOp' = "sendMessage" /\ native /\ logger # "none"
           /\ Len(promises') = Len(promises) + 1) =>
          LET r == promises'[Len(promises')]
          IN lastLog' = <<[by |-> logger, level |-> "debug", message |-> "Sending message",
                           data |-> [type |-> r.type, id |-> r.id]]>>]_vars
  /\ [][logger # "none" =>
         \A p \in DOMAIN promises :
           LET timedOut == /\ promises[p].outcome = Pending
                           /\ promises'[p].outcome =
                                Rejected("TIMEOUT", "Request timed out", promises[p].type)
               warned == \E i \in DOMAIN lastLog' :
                           /\ lastLog'[i].level = "warn"
                           /\ lastLog'[i].message = "Request timed out"
                           /\ lastLog'[i].data = [type |-> promises[p].type, id |-> promises[p].id]
           IN promises[p].id # NoId => (warned <=> timedOut)]_vars

\* C37: reachability is evaluated at each call: whatever attach/detach
\* changes came before, sendMessage and postMessage transmit an envelope if
\* and only if a host is present at the moment of the call; a host change
\* leaves pending requests alone, and a request pending while no host is
\* present is still settled by its matching response or by its timeout.
C37_ReachabilityPerCall ==
  /\ [][lastOp' \in {"sendMessage", "postMessage"} =>
         ((Len(sent') = Len(sent) + 1) <=> native)]_vars
  /\ [][lastOp' = "setHost" => UNCHANGED <<pendingRequests, timers, promises>>]_vars
  /\ [][(~native /\ lastOp' = "handleNativeMessage") =>
         \A m \in IncomingMessages :
           (/\ handleNativeMessage(m)
            /\ isBridgeResponse(Decode(m))
            /\ Get(Decode(m), "id").v \in DOMAIN pendingRequests) =>
              LET p == pendingRequests[Get(Decode(m), "id").v]
              IN promises[p].outcome = Pending =>
                   promises'[p].outcome = ResponseOutcome(promises[p].type, Decode(m))]_vars
  /\ [][(~native /\ lastOp' = "timer") =>
         \A p \in timers \ timers' :
           promises[p].outcome = Pending =>
             promises'[p].outcome = Rejected("TIMEOUT", "Request timed out", promises[p].type)]_vars

\* the two shapes as the specification words them
HasTyped(x, name, type) == x.t = "object" /\ Get(x, name).t = type
ResponseShape(x) == HasTyped(x, "id", "string") /\ HasTyped(x, "success", "boolean")
EventShape(x) == HasTyped(x, "event", "string")

\* C38: isBridgeResponse(x) is true exactly when x is a non-null object with
\* a string id and a boolean success, isBridgeEvent(x) exactly when x is a
\* non-null object with a string event; null, primitives and objects with
\* wrongly typed fields are classified as neither.
C38_ClassificationPredicates ==
  classified.called =>
    /\ classified.response <=> ResponseShape(classified.value)
    /\ classified.event <=> EventShape(classified.value)
    /\ classified.value.t # "object" => (~classified.response /\ ~classified.event)

\* C38 witness: an object whose id, success and event fields are all present
\* but wrongly typed has been classified as neither.
C38_Witness ==
  /\ classified.called
  /\ classified.value = Obj(("id" :> Num(1)) @@ ("success" :> Str("true")) @@ ("event" :> Num(1)))
  /\ ~classified.response
  /\ ~classified.event

\* C39: a matching response with success=false whose error field is absent
\* or the empty string rejects the caller with NATIVE_ERROR, the message
\* 'Unknown native error' and the originating type as detail.
C39_UnknownNativeError ==
  [][lastOp' = "handleNativeMessage" =>
     \A m \in IncomingMessages :
       (/\ handleNativeMessage(m)
        /\ isBridgeResponse(Decode(m))
        /\ Get(Decode(m), "success").v = FALSE
        /\ Get(Decode(m), "error") \in {Undef, Str("")}
        /\ Get(Decode(m), "id").v \in DOMAIN pendingRequests) =>
          LET p == pendingRequests[Get(Decode(m), "id").v]
          IN ~Settled(p) =>
               promises'[p].outcome =
                 Rejected("NATIVE_ERROR", "Unknown native error", promises[p].type)]_vars

====
